---- MODULE Spec2Model ----
(***************************************************************************)
(* Model of providers/windows/host_windows.go: the construction of the     *)
(* Windows host handle (newHost and its reader), the growing-buffer loop   *)
(* of getComputerNameEx, and the live queries of the handle.               *)
(***************************************************************************)
EXTENDS Integers, Sequences, FiniteSets, TLC

VARIABLES
    pc,        \* position of the program: the reader step newHost runs next, "ready" once Host() returned
    info,      \* h.info, the types.HostInfo of the handle under construction
    errs,      \* r.errs, the reader's error list
    outcome,   \* what each fact query answered in this run: its kind ("none" before it ran,
               \* then "ok", "fail" or "ni"), the value and the error it returned
    retH,      \* the handle newHost returned
    retErr,    \* the error newHost returned
    size,      \* getComputerNameEx: local size
    bufLen,    \* getComputerNameEx: len(buff) of the buffer handed to the last OS call
    osErr,     \* getComputerNameEx: local err of the last OS call
    calls,     \* getComputerNameEx: number of OS calls made so far
    gcn,       \* getComputerNameEx: "loop" while looping, then its return (value, error) or a fault
    osName,    \* the computer name the OS holds during the run of getComputerNameEx
    conform,   \* whether every OS answer so far followed the GetComputerNameExW protocol
    lastRet    \* the result of the last method call on the returned handle

vars == <<pc, info, errs, outcome, retH, retErr, size, bufLen, osErr, calls, gcn,
          osName, conform, lastRet>>

gcnVars == <<size, bufLen, osErr, calls, gcn, osName, conform>>

----------------------------------------------------------------------------
(* Bounds of the model. *)

\* Largest size value the OS reports; it stands for the largest uint32.
MaxSize == 67

----------------------------------------------------------------------------
(* Errors: a message and the set of sentinels errors.Is finds on the       *)
(* Unwrap chain.                                                           *)

Nil == [msg |-> <<>>, chain |-> {}]

ErrNotImplemented == [msg |-> <<"unimplemented">>, chain |-> {"ErrNotImplemented"}]

ERROR_MORE_DATA == [msg |-> <<"More data is available.">>, chain |-> {"ERROR_MORE_DATA"}]

ERROR_ACCESS_DENIED == [msg |-> <<"Access is denied.">>, chain |-> {"ERROR_ACCESS_DENIED"}]

\* errors.Is(err, target) for a sentinel target
ErrorsIs(err, target) == target.chain \subseteq err.chain /\ err # Nil

\* fmt.Errorf(prefix + "%w", err): the chain of err stays reachable
ErrorfW(prefix, err) == [msg |-> <<prefix>> \o err.msg, chain |-> err.chain]

\* fmt.Errorf(prefix + "%s", err): only the text of err is kept
ErrorfS(prefix, err) == [msg |-> <<prefix>> \o err.msg, chain |-> {}]

\* fmt.Errorf(text) without an argument
ErrorfPlain(text) == [msg |-> <<text>>, chain |-> {}]

\* &multierror.MultiError{Errors: es}
MultiError(es) == [msg |-> <<"multierror">>, chain |-> {}, Errors |-> es]

----------------------------------------------------------------------------
(* reader.addErr and reader.Err                                            *)

\* addErr that records the error but reports no failure to its caller
addErrReportsNoFailure(es, err) ==
    IF err # Nil
    THEN [errs |-> IF ~ErrorsIs(err, ErrNotImplemented) THEN Append(es, err) ELSE es,
          failed |-> FALSE]
    ELSE [errs |-> es, failed |-> FALSE]

\* addErr: the new r.errs and the returned bool
addErr(es, err) ==
    IF err # Nil
    THEN [errs |-> IF ~ErrorsIs(err, ErrNotImplemented) THEN Append(es, err) ELSE es,
          failed |-> TRUE]
    ELSE [errs |-> es, failed |-> FALSE]

\* Err
Err(es) == IF Len(es) > 0 THEN MultiError(es) ELSE Nil

----------------------------------------------------------------------------
(* The fact queries of the platform and what they may answer.              *)

Queries == <<"architecture", "bootTime", "hostname", "fqdn", "network",
             "kernelVersion", "os", "uniqueID">>

QueryNames == {Queries[i] : i \in 1..Len(Queries)}

\* the types.HostInfo of &host{}
ZeroInfo ==
    [Architecture |-> "", BootTime |-> 0, Hostname |-> "", FQDN |-> <<>>,
     IPs |-> <<>>, MACs |-> <<>>, KernelVersion |-> "", OS |-> "nil",
     Timezone |-> "", TimezoneOffsetSec |-> 0, UniqueID |-> ""]

\* the value a query other than the FQDN query yields when it succeeds
QueryValue(q) ==
    CASE q = "architecture" -> "x86_64"
      [] q = "bootTime" -> 1700000000
      [] q = "hostname" -> "host1"
      [] q = "network" -> [ips |-> <<"10.0.0.7">>, macs |-> <<"00:15:5d:00:00:01">>]
      [] q = "kernelVersion" -> "10.0.19041.1"
      [] q = "os" -> "Windows 10 Pro"
      [] q = "uniqueID" -> "5b1a3c2e"

\* the platform-specific failure of query q
QueryFailure(q) == [msg |-> <<q, "failed">>, chain |-> {"QueryFailure"}]

\* the errors a query may answer: nil, a failure, the sentinel, the sentinel wrapped
QueryErrors(q) ==
    {Nil, QueryFailure(q), ErrNotImplemented, ErrorfW(q, ErrNotImplemented)}

\* how the run records the answer (v, err) of a query: the value of a success,
\* the error of a failure, and of a NotImplemented answer only its kind
Answer(v, err) ==
    IF err = Nil THEN [kind |-> "ok", val |-> v, err |-> Nil]
    ELSE IF ErrNotImplemented.chain \subseteq err.chain
         THEN [kind |-> "ni", val |-> <<>>, err |-> Nil]
         ELSE [kind |-> "fail", val |-> <<>>, err |-> err]

NotAsked == [kind |-> "none", val |-> <<>>, err |-> Nil]

\* time.Now().Zone()
Zones == {[name |-> "CET", offset |-> 3600]}

----------------------------------------------------------------------------
(* getComputerNameEx and the OS call it drives.                            *)

\* size := uint32(64)
InitialSize == 64

\* a computer name of n UTF-16 units, the last d of them '.' (46), the others 'a' (97)
Name(n, d) == [i \in 1..n |-> IF i > n - d THEN 46 ELSE 97]

NameLens == {0, 2, InitialSize - 1, InitialSize, MaxSize - 1}

\* the names the OS may hold
Names ==
    {Name(n, 0) : n \in NameLens}
    \cup {Name(2, 1), Name(2, 2), Name(InitialSize, 1), Name(MaxSize - 1, 2)}

\* the buffer after the OS call: the name, cut to the buffer, then NULs
Written(name, len) == [i \in 1..len |-> IF i <= Len(name) THEN name[i] ELSE 0]

\* what GetComputerNameExW answers when it follows its protocol: success and the
\* number of units copied when name and terminator fit, else ERROR_MORE_DATA and
\* the size needed
ProtocolAnswer(name, len) ==
    IF Len(name) + 1 <= len
    THEN [err |-> Nil, size |-> Len(name)]
    ELSE [err |-> ERROR_MORE_DATA, size |-> Len(name) + 1]

\* the values the OS may leave in size
OsSizes(name, len) ==
    ({0, Len(name), Len(name) + 1} \cup ((InitialSize - 1)..MaxSize)) \cap (0..MaxSize)

\* every answer the OS call may give for a buffer of len units
OsAnswers(name, len) ==
    {[err |-> e, size |-> s] : e \in {Nil, ERROR_MORE_DATA}, s \in OsSizes(name, len)}
    \cup {[err |-> e, size |-> len] : e \in {ERROR_ACCESS_DENIED, ErrNotImplemented}}

\* the index of the first NUL of s, or Len(s) + 1
RECURSIVE FirstNul(_, _)
FirstNul(s, i) ==
    IF i > Len(s) THEN i
    ELSE IF s[i] = 0 THEN i ELSE FirstNul(s, i + 1)

\* syscall.UTF16ToString: the units before the first NUL
UTF16ToString(s) == SubSeq(s, 1, FirstNul(s, 1) - 1)

\* the safeguard with < in place of <=
GuardStrict(sz, len) == sz < len

\* the safeguard of the ERROR_MORE_DATA branch: size <= uint32(len(buff))
Guard(sz, len) == sz <= len

\* a retry buffer one unit longer than the last one
GrowByOne(sz, len) == IF len = 0 THEN sz ELSE len + 1

\* buff := make([]uint16, size) at the head of the loop: the length of the buffer
MakeBuff(sz, len) == sz

\* the final return with the OS error formatted as text only
WrapOsErrorAsText(err) ==
    ErrorfS("could not get windows FQDN: could not get windows.ComputerNamePhysicalDnsFullyQualified: ", err)

\* the final return of the loop body: the OS error wrapped with its context
WrapOsError(err) ==
    ErrorfW("could not get windows FQDN: could not get windows.ComputerNamePhysicalDnsFullyQualified: ", err)

\* the body of the for loop for one OS answer: the locals after it and how the
\* loop goes on
LoopBody(len, name, ans) ==
    LET buff == Written(name, len) IN
    IF ans.err = Nil
    THEN IF ans.size > len
         THEN [state |-> "panic", val |-> <<>>, err |-> Nil]
         ELSE [state |-> "value",
               val |-> UTF16ToString(SubSeq(buff, 1, ans.size)), err |-> Nil]
    ELSE IF ErrorsIs(ans.err, ERROR_MORE_DATA)
    THEN IF Guard(ans.size, len)
         THEN [state |-> "error", val |-> <<>>,
               err |-> ErrorfPlain("windows.GetComputerNameEx returned ERROR_MORE_DATA, but data size should fit into buffer")]
         ELSE [state |-> "loop", val |-> <<>>, err |-> Nil]
    ELSE [state |-> "error", val |-> <<>>,
          err |-> WrapOsError(ans.err)]

GcnEntry == [state |-> "loop", val |-> <<>>, err |-> Nil]

\* one iteration of the loop of getComputerNameEx, run for reader.fqdn
getComputerNameEx ==
    /\ pc = "fqdn"
    /\ gcn.state = "loop"
    /\ LET len == MakeBuff(size, bufLen) IN
       \E name \in (IF calls = 0 THEN Names ELSE {osName}) :
       \E ans \in OsAnswers(name, len) :
          /\ osName' = name
          /\ bufLen' = len
          /\ size' = ans.size
          /\ osErr' = ans.err
          /\ calls' = calls + 1
          /\ conform' = (conform /\ ans = ProtocolAnswer(name, len))
          /\ gcn' = LoopBody(len, name, ans)
    /\ UNCHANGED <<pc, info, errs, outcome, retH, retErr, lastRet>>

\* strings.TrimSuffix(s, "."): s without one trailing '.'
TrimSuffix(s) ==
    IF Len(s) > 0 /\ s[Len(s)] = 46 THEN SubSeq(s, 1, Len(s) - 1) ELSE s

\* the locals of getComputerNameEx outside a run of it
GcnIdle ==
    /\ size' = InitialSize
    /\ bufLen' = 0
    /\ osErr' = Nil
    /\ calls' = 0
    /\ gcn' = GcnEntry
    /\ osName' = <<>>
    /\ conform' = TRUE

\* reader.fqdn once getComputerNameEx returned
fqdn ==
    /\ pc = "fqdn"
    /\ gcn.state \in {"value", "error"}
    /\ IF gcn.err # Nil
       THEN /\ errs' = addErr(errs, ErrorfS("could not get windows FQDN: ", gcn.err)).errs
            /\ info' = info
       ELSE /\ errs' = errs
            /\ info' = [info EXCEPT !.FQDN = TrimSuffix(gcn.val)]
    /\ outcome' = [outcome EXCEPT !["fqdn"] = Answer(gcn.val, gcn.err)]
    /\ pc' = "network"
    /\ GcnIdle
    /\ UNCHANGED <<retH, retErr, lastRet>>

----------------------------------------------------------------------------
(* The other reader steps of newHost.                                      *)

\* the assignments with reader.network storing the IPs only
SetFieldWithoutMACs(q, i, v) ==
    CASE q = "architecture" -> [i EXCEPT !.Architecture = v]
      [] q = "bootTime" -> [i EXCEPT !.BootTime = v]
      [] q = "hostname" -> [i EXCEPT !.Hostname = v]
      [] q = "network" -> [i EXCEPT !.IPs = v.ips]
      [] q = "kernelVersion" -> [i EXCEPT !.KernelVersion = v]
      [] q = "os" -> [i EXCEPT !.OS = v]
      [] q = "uniqueID" -> [i EXCEPT !.UniqueID = v]

\* the assignment that ends the reader method of query q
SetField(q, i, v) ==
    CASE q = "architecture" -> [i EXCEPT !.Architecture = v]
      [] q = "bootTime" -> [i EXCEPT !.BootTime = v]
      [] q = "hostname" -> [i EXCEPT !.Hostname = v]
      [] q = "network" -> [i EXCEPT !.IPs = v.ips, !.MACs = v.macs]
      [] q = "kernelVersion" -> [i EXCEPT !.KernelVersion = v]
      [] q = "os" -> [i EXCEPT !.OS = v]
      [] q = "uniqueID" -> [i EXCEPT !.UniqueID = v]

\* a newHost that returns at the first reader method that failed
StopAtFailure(next, failed) == IF failed THEN "return" ELSE next

\* the statement newHost runs after a reader method: the next one, whether the
\* method failed or not
AfterQuery(next, failed) == next

\* the step every fallible reader method shares: query, addErr, return early or
\* store the value. The query may hand back a value next to an error.
ReaderStep(q, next) ==
    /\ pc = q
    /\ \E err \in QueryErrors(q) :
         LET v == QueryValue(q)
             r == addErr(errs, err)
         IN /\ errs' = r.errs
            /\ info' = IF r.failed THEN info ELSE SetField(q, info, v)
            /\ outcome' = [outcome EXCEPT ![q] = Answer(v, err)]
            /\ pc' = AfterQuery(next, r.failed)
    /\ UNCHANGED <<retH, retErr, lastRet>>
    /\ UNCHANGED gcnVars

architecture == ReaderStep("architecture", "bootTime")

bootTime == ReaderStep("bootTime", "hostname")

hostname == ReaderStep("hostname", "fqdn")

network == ReaderStep("network", "kernelVersion")

kernelVersion == ReaderStep("kernelVersion", "os")

os == ReaderStep("os", "time")

time ==
    /\ pc = "time"
    /\ \E z \in Zones :
         info' = [info EXCEPT !.Timezone = z.name, !.TimezoneOffsetSec = z.offset]
    /\ pc' = "uniqueID"
    /\ UNCHANGED <<errs, outcome, retH, retErr, lastRet>>
    /\ UNCHANGED gcnVars

uniqueID == ReaderStep("uniqueID", "return")

\* a newHost that hands out no handle when the reader collected errors
HandleOnlyWithoutErrors(es) == IF Len(es) > 0 THEN "nil" ELSE "h"

\* the first value of `return h, r.Err()`: the pointer made by h := &host{}
ReturnedHandle(es) == "h"

\* return h, r.Err() of newHost, handed on unchanged by windowsSystem.Host
newHost ==
    /\ pc = "return"
    /\ retH' = ReturnedHandle(errs)
    /\ retErr' = Err(errs)
    /\ pc' = "ready"
    /\ UNCHANGED <<info, errs, outcome, lastRet>>
    /\ UNCHANGED gcnVars

----------------------------------------------------------------------------
(* The methods of the returned handle.                                     *)

\* uint64 values as four 16-bit limbs, most significant first
Limb == 2^16

U64(a, b, c, d) == <<a, b, c, d>>

\* a - b in uint64 arithmetic (wrapping), limb by limb with borrow
Sub64(a, b) ==
    LET d4 == a[4] - b[4]
        w4 == IF d4 < 0 THEN 1 ELSE 0
        d3 == a[3] - b[3] - w4
        w3 == IF d3 < 0 THEN 1 ELSE 0
        d2 == a[2] - b[2] - w3
        w2 == IF d2 < 0 THEN 1 ELSE 0
        d1 == a[1] - b[1] - w2
    IN <<d1 % Limb, d2 % Limb, d3 % Limb, d4 % Limb>>

\* the sum of a and b as an integer of five limbs (no wrapping)
Add64Wide(a, b) ==
    LET s4 == a[4] + b[4]
        s3 == a[3] + b[3] + (s4 \div Limb)
        s2 == a[2] + b[2] + (s3 \div Limb)
        s1 == a[1] + b[1] + (s2 \div Limb)
    IN <<s1 \div Limb, s1 % Limb, s2 % Limb, s3 % Limb, s4 % Limb>>

\* a <= b for sequences of limbs of one length
RECURSIVE LeqLimbs(_, _, _)
LeqLimbs(a, b, i) ==
    IF i > Len(a) THEN TRUE
    ELSE IF a[i] # b[i] THEN a[i] < b[i] ELSE LeqLimbs(a, b, i + 1)

Leq64(a, b) == LeqLimbs(a, b, 1)

GiB4 == U64(0, 1, 0, 0)

GiB16 == U64(0, 4, 0, 0)

Zero64 == U64(0, 0, 0, 0)

One64 == U64(0, 0, 0, 1)

\* a MEMORYSTATUSEX as go-windows returns it, with the error of the call
Status(tp, ap, tf, af, e) ==
    [TotalPhys |-> tp, AvailPhys |-> ap, TotalPageFile |-> tf, AvailPageFile |-> af,
     err |-> e]

\* what windows.GlobalMemoryStatusEx may answer: a status, or an error
MemoryStatus ==
    {Status(GiB16, GiB4, GiB4, One64, Nil),
     Status(GiB4, GiB16, GiB16, GiB4, Nil),
     Status(GiB16, GiB4, One64, GiB4, Nil),
     Status(Zero64, Zero64, Zero64, Zero64, Nil),
     Status(Zero64, Zero64, Zero64, Zero64, ERROR_ACCESS_DENIED)}

\* what windows.GetSystemTimes may answer: three durations, or an error
SystemTimes ==
    {[idle |-> 300, kernel |-> 20, user |-> 1, err |-> Nil],
     [idle |-> 0, kernel |-> 0, user |-> 0, err |-> ERROR_ACCESS_DENIED]}

\* types.CPUTimes{}
ZeroCPUTimes == [System |-> 0, User |-> 0, Idle |-> 0]

NoCall == [op |-> "none", val |-> <<>>, err |-> Nil]

\* the HostMemoryInfo with Used taken from the available bytes
HostMemoryInfoUsedIsAvail(mem) ==
    [Total |-> mem.TotalPhys,
     Used |-> mem.AvailPhys,
     Free |-> mem.AvailPhys,
     Available |-> mem.AvailPhys,
     VirtualTotal |-> mem.TotalPageFile,
     VirtualUsed |-> Sub64(mem.TotalPageFile, mem.AvailPageFile),
     VirtualFree |-> mem.AvailPageFile]

\* the types.HostMemoryInfo that Memory builds from a status
HostMemoryInfo(mem) ==
    [Total |-> mem.TotalPhys,
     Used |-> Sub64(mem.TotalPhys, mem.AvailPhys),
     Free |-> mem.AvailPhys,
     Available |-> mem.AvailPhys,
     VirtualTotal |-> mem.TotalPageFile,
     VirtualUsed |-> Sub64(mem.TotalPageFile, mem.AvailPageFile),
     VirtualFree |-> mem.AvailPageFile]

\* a live query that clears the stored facts when the OS call fails
InfoClearedOnFailure(i, err) == IF err # Nil THEN ZeroInfo ELSE i

\* h.info after a live query: CPUTime and Memory do not assign it
InfoAfterLiveQuery(i, err) == i

\* host.Info
Info ==
    /\ pc = "ready"
    /\ retH = "h"
    /\ lastRet' = [op |-> "Info", val |-> info, err |-> Nil]
    /\ UNCHANGED <<pc, info, errs, outcome, retH, retErr>>
    /\ UNCHANGED gcnVars

\* a CPUTime that answers a failed OS query with empty times and no error
CPUTimeReturnDropsError(t) ==
    IF t.err # Nil
    THEN [val |-> ZeroCPUTimes, err |-> Nil]
    ELSE [val |-> [System |-> t.kernel, User |-> t.user, Idle |-> t.idle], err |-> Nil]

\* what CPUTime returns for the answer t of windows.GetSystemTimes
CPUTimeReturn(t) ==
    IF t.err # Nil
    THEN [val |-> ZeroCPUTimes, err |-> t.err]
    ELSE [val |-> [System |-> t.kernel, User |-> t.user, Idle |-> t.idle], err |-> Nil]

\* host.CPUTime
CPUTime ==
    /\ pc = "ready"
    /\ retH = "h"
    /\ \E t \in SystemTimes :
         /\ lastRet' = [op |-> "CPUTime", val |-> CPUTimeReturn(t).val, in |-> t,
                        err |-> CPUTimeReturn(t).err]
         /\ info' = InfoAfterLiveQuery(info, t.err)
    /\ UNCHANGED <<pc, errs, outcome, retH, retErr>>
    /\ UNCHANGED gcnVars

\* host.Memory
Memory ==
    /\ pc = "ready"
    /\ retH = "h"
    /\ \E mem \in MemoryStatus :
         /\ lastRet' =
              IF mem.err # Nil
              THEN [op |-> "Memory", val |-> "nil", in |-> mem, err |-> mem.err]
              ELSE [op |-> "Memory", val |-> HostMemoryInfo(mem), in |-> mem, err |-> Nil]
         /\ info' = InfoAfterLiveQuery(info, mem.err)
    /\ UNCHANGED <<pc, errs, outcome, retH, retErr>>
    /\ UNCHANGED gcnVars

----------------------------------------------------------------------------
(* The program: Host() runs newHost once, then the caller uses the handle. *)

Init ==
    /\ pc = "architecture"
    /\ info = ZeroInfo
    /\ errs = <<>>
    /\ outcome = [q \in QueryNames |-> NotAsked]
    /\ retH = "none"
    /\ retErr = Nil
    /\ size = InitialSize
    /\ bufLen = 0
    /\ osErr = Nil
    /\ calls = 0
    /\ gcn = GcnEntry
    /\ osName = <<>>
    /\ conform = TRUE
    /\ lastRet = NoCall

Next ==
    \/ architecture
    \/ bootTime
    \/ hostname
    \/ getComputerNameEx
    \/ fqdn
    \/ network
    \/ kernelVersion
    \/ os
    \/ time
    \/ uniqueID
    \/ newHost
    \/ Info
    \/ CPUTime
    \/ Memory

Spec == Init /\ [][Next]_vars

----------------------------------------------------------------------------
(* Vocabulary of the properties.                                           *)

\* all reader steps of newHost have run
Gathered == pc \in {"return", "ready"}

\* the part of a HostInfo that query q fills
FieldOf(q, i) ==
    CASE q = "architecture" -> i.Architecture
      [] q = "bootTime" -> i.BootTime
      [] q = "hostname" -> i.Hostname
      [] q = "fqdn" -> i.FQDN
      [] q = "network" -> [ips |-> i.IPs, macs |-> i.MACs]
      [] q = "kernelVersion" -> i.KernelVersion
      [] q = "os" -> i.OS
      [] q = "uniqueID" -> i.UniqueID

\* the fact a successful query q contributes: its value, for the FQDN without
\* one trailing dot
Fact(q) ==
    IF q = "fqdn"
    THEN IF Len(outcome[q].val) > 0 /\ outcome[q].val[Len(outcome[q].val)] = 46
         THEN SubSeq(outcome[q].val, 1, Len(outcome[q].val) - 1)
         ELSE outcome[q].val
    ELSE outcome[q].val

KindOf(q) == outcome[q].kind

\* the entry a failing query q leaves in the error list: its error, for the FQDN
\* query under the prefix reader.fqdn puts in front of it
Entry(q) ==
    IF q = "fqdn"
    THEN [msg |-> <<"could not get windows FQDN: ">> \o outcome[q].err.msg, chain |-> {}]
    ELSE outcome[q].err

\* the entries of the queries i..8 that failed with something else than
\* NotImplemented, in the order of invocation
RECURSIVE EntriesFrom(_)
EntriesFrom(i) ==
    IF i > Len(Queries) THEN <<>>
    ELSE IF KindOf(Queries[i]) = "fail"
         THEN <<Entry(Queries[i])>> \o EntriesFrom(i + 1)
         ELSE EntriesFrom(i + 1)

----------------------------------------------------------------------------
(* C1: when newHost has run its queries and each of them either succeeded  *)
(* or failed with an error other than NotImplemented, every field whose    *)
(* query succeeded holds that query's result and every field whose query   *)
(* failed is at its zero value.                                            *)
C1_PartialTolerance ==
    (Gathered /\ \A q \in QueryNames : KindOf(q) \in {"ok", "fail"})
    => \A q \in QueryNames :
          FieldOf(q, info) = IF KindOf(q) = "ok" THEN Fact(q) ELSE FieldOf(q, ZeroInfo)

\* newHost returned after hostname, fqdn and os failed and the other five succeeded
C1_Witness ==
    /\ pc = "ready"
    /\ \A q \in QueryNames :
         KindOf(q) = IF q \in {"hostname", "fqdn", "os"} THEN "fail" ELSE "ok"
    /\ info.Hostname = "" /\ info.FQDN = <<>> /\ info.OS = "nil"
    /\ info.Architecture = "x86_64" /\ info.IPs # <<>> /\ info.UniqueID # ""

(* C2: a query that fails with NotImplemented, directly or wrapped, leaves *)
(* no entry in the combined error and its field at the zero value; when no *)
(* query fails otherwise, newHost returns a nil error.                     *)
C2_NotImplementedSuppressed ==
    Gathered =>
       /\ \A q \in QueryNames : KindOf(q) = "ni" =>
             /\ FieldOf(q, info) = FieldOf(q, ZeroInfo)
             /\ Len(errs) = Cardinality({f \in QueryNames : KindOf(f) = "fail"})
             /\ \A k \in 1..Len(errs) :
                   \E f \in QueryNames : KindOf(f) = "fail" /\ errs[k] = Entry(f)
       /\ (pc = "ready" /\ \A q \in QueryNames : KindOf(q) \in {"ok", "ni"})
             => retErr = Nil

(* C3: the error newHost returns is nil exactly when no query failed with  *)
(* an error other than NotImplemented; otherwise it is one multi-error     *)
(* that lists the entries of exactly those queries, in invocation order.   *)
C3_CombinedError ==
    pc = "ready" =>
       IF \A q \in QueryNames : KindOf(q) # "fail"
       THEN retErr = Nil
       ELSE retErr = [msg |-> <<"multierror">>, chain |-> {}, Errors |-> EntriesFrom(1)]

(* C4: whatever the queries answered, newHost hands out a non-nil handle   *)
(* after having asked every query, and the handle carries every fact that  *)
(* was gathered, also when the returned error is not nil.                  *)
C4_BestEffortHandle ==
    pc = "ready" =>
       /\ retH = "h"
       /\ \A q \in QueryNames :
             /\ KindOf(q) # "none"
             /\ KindOf(q) = "ok" => FieldOf(q, info) = Fact(q)

\* newHost returned a handle and a non-nil error after every fallible query failed
C4_Witness ==
    /\ pc = "ready"
    /\ retH = "h"
    /\ retErr # Nil
    /\ \A q \in QueryNames : KindOf(q) = "fail"
    /\ info.Timezone = "CET"

(* C5, as stated: when newHost reports a non-nil error the handle is not   *)
(* returned, so Info() only runs on a handle built without error.          *)
C5_NoHandleOnError ==
    /\ (pc = "ready" /\ retErr # Nil) => retH # "h"
    /\ lastRet.op = "Info" => retErr = Nil

(* C5, amended: when newHost reports a non-nil error the handle is         *)
(* returned all the same, and Info() on it yields the facts gathered, the  *)
(* fields of the failed queries at their zero values.                      *)
C5_HandleReturnedWithError ==
    (pc = "ready" /\ retErr # Nil) =>
       /\ retH = "h"
       /\ retErr.Errors = errs
       /\ lastRet.op = "Info" =>
             /\ lastRet.val = info
             /\ \A q \in QueryNames :
                   KindOf(q) = "fail" => FieldOf(q, lastRet.val) = FieldOf(q, ZeroInfo)

\* Info() ran on a handle whose construction reported the failure of the FQDN query
C5_Witness ==
    /\ pc = "ready"
    /\ retErr # Nil
    /\ KindOf("fqdn") = "fail"
    /\ lastRet.op = "Info"
    /\ lastRet.val.FQDN = <<>>
    /\ lastRet.val.Hostname = "host1"

\* the least k >= 0 with n * 2^k >= s: the ceiling of log2(s / n), and 0 when s <= n
RECURSIVE CeilLog2Ratio(_, _)
CeilLog2Ratio(s, n) == IF n >= s THEN 0 ELSE 1 + CeilLog2Ratio(s, 2 * n)

\* the size the OS needs for its name: the units of the name and the terminator
Required == Len(osName) + 1

(* C6: against an OS that answers ERROR_MORE_DATA with the required size S *)
(* while the buffer is shorter than S and succeeds once it is not,         *)
(* getComputerNameEx returns the name of the OS after at most              *)
(* ceil(log2(S / 64)) + 1 OS calls, and the buffer of a retry has exactly  *)
(* S units.                                                                *)
C6_GrowthBound ==
    (pc = "fqdn" /\ calls > 0 /\ conform) =>
       /\ calls <= CeilLog2Ratio(Required, InitialSize) + 1
       /\ calls > 1 => bufLen = Required
       /\ gcn.state # "loop" => (gcn.state = "value" /\ gcn.val = osName)

\* a name of more than 64 units was returned on the second call, made with a
\* buffer of the required size
C6_Witness ==
    /\ pc = "fqdn"
    /\ conform
    /\ Required = MaxSize
    /\ calls = 2
    /\ bufLen = Required
    /\ gcn.state = "value"
    /\ gcn.val = osName

(* C7: when the OS call fails with ERROR_MORE_DATA and reports a size that *)
(* is not larger than the buffer it was given, getComputerNameEx returns   *)
(* an error on that iteration, and after it returned an error no further   *)
(* OS call is made.                                                        *)
C7_ProtocolGuard ==
    [][/\ (calls' = calls + 1 /\ osErr' = ERROR_MORE_DATA /\ size' <= bufLen')
           => (gcn'.state = "error" /\ gcn'.err # Nil)
       /\ gcn.state = "error" => calls' # calls + 1]_vars

\* on a retry the OS reported ERROR_MORE_DATA with exactly the size of the buffer
\* it was given, and the function returned its error
C7_Witness ==
    /\ pc = "fqdn"
    /\ calls = 2
    /\ osErr = ERROR_MORE_DATA
    /\ size = bufLen
    /\ bufLen > InitialSize
    /\ gcn.state = "error"

(* C8: whatever the OS answers, the loop of getComputerNameEx ends by      *)
(* returning a value or an error and in no other way.                      *)
C8_ReturnsValueOrError ==
    (pc = "fqdn" /\ calls > 0) => gcn.state \in {"loop", "value", "error"}

\* the 64-bit sum of two uint64 equals a third, without a carry out of bit 63
IsTrueSum(a, b, c) == Add64Wide(a, b) = <<0>> \o c

\* the 64-bit sum of two uint64 equals a third modulo 2^64
IsWrappedSum(a, b, c) == Tail(Add64Wide(a, b)) = c

(* C9, as stated: for every successful memory report, Used = Total - Free  *)
(* and VirtualUsed = VirtualTotal - VirtualFree as true differences, so    *)
(* Used <= Total and VirtualUsed <= VirtualTotal.                          *)
C9_TrueDifferences ==
    (lastRet.op = "Memory" /\ lastRet.err = Nil) =>
       /\ IsTrueSum(lastRet.val.Used, lastRet.val.Free, lastRet.val.Total)
       /\ IsTrueSum(lastRet.val.VirtualUsed, lastRet.val.VirtualFree, lastRet.val.VirtualTotal)
       /\ Leq64(lastRet.val.Used, lastRet.val.Total)
       /\ Leq64(lastRet.val.VirtualUsed, lastRet.val.VirtualTotal)

(* C9, amended: for every successful memory report, Total, Free,           *)
(* VirtualTotal and VirtualFree are the reported values, Used is           *)
(* Total - Free modulo 2^64 and VirtualUsed is VirtualTotal - VirtualFree  *)
(* modulo 2^64; each is the true difference, and then not larger than its  *)
(* total, exactly when the reported available bytes do not exceed the      *)
(* reported total.                                                         *)
C9_DifferencesModulo ==
    (lastRet.op = "Memory" /\ lastRet.err = Nil) =>
       LET m == lastRet.val
           r == lastRet.in
       IN /\ m.Total = r.TotalPhys /\ m.Free = r.AvailPhys
          /\ m.VirtualTotal = r.TotalPageFile /\ m.VirtualFree = r.AvailPageFile
          /\ IsWrappedSum(m.Used, m.Free, m.Total)
          /\ IsWrappedSum(m.VirtualUsed, m.VirtualFree, m.VirtualTotal)
          /\ IsTrueSum(m.Used, m.Free, m.Total) <=> Leq64(r.AvailPhys, r.TotalPhys)
          /\ IsTrueSum(m.VirtualUsed, m.VirtualFree, m.VirtualTotal)
                <=> Leq64(r.AvailPageFile, r.TotalPageFile)
          /\ Leq64(r.AvailPhys, r.TotalPhys) => Leq64(m.Used, m.Total)
          /\ Leq64(r.AvailPageFile, r.TotalPageFile) => Leq64(m.VirtualUsed, m.VirtualTotal)

\* Memory() answered 12 GiB used of 16 GiB with 4 GiB free, and 2^32 - 1 bytes of
\* virtual memory used of 4 GiB with 1 byte free
C9_Witness ==
    /\ lastRet.op = "Memory"
    /\ lastRet.err = Nil
    /\ lastRet.val.Total = GiB16
    /\ lastRet.val.Free = GiB4
    /\ lastRet.val.Used = U64(0, 3, 0, 0)
    /\ lastRet.val.VirtualUsed = U64(0, 0, Limb - 1, Limb - 1)

(* C10: once newHost returned the handle, no call of Info(), CPUTime() or  *)
(* Memory(), successful or failing, changes the stored HostInfo, and every *)
(* Info() call returns the stored HostInfo.                                *)
C10_SnapshotImmutable ==
    [][pc = "ready" =>
         /\ pc' = "ready"
         /\ info' = info
         /\ lastRet'.op = "Info" => lastRet'.val = info]_vars

\* a failing Memory() call ran on a handle that holds every fact
C10_Witness ==
    /\ pc = "ready"
    /\ lastRet.op = "Memory"
    /\ lastRet.err # Nil
    /\ \A q \in QueryNames : KindOf(q) = "ok" /\ FieldOf(q, info) # FieldOf(q, ZeroInfo)

(* C11: every CPUTime() and Memory() call returns what the OS answered to  *)
(* the one query of that call and nothing else: for a failed query the     *)
(* error of the query with empty times (resp. no memory info), for a       *)
(* successful one the reported times (resp. the memory info built from the *)
(* reported status) and no error, whatever the handle holds and whatever   *)
(* was called before.                                                      *)
C11_LiveQueriesNotCached ==
    /\ lastRet.op = "CPUTime" =>
          IF lastRet.in.err # Nil
          THEN lastRet.err = lastRet.in.err /\ lastRet.val = [System |-> 0, User |-> 0, Idle |-> 0]
          ELSE /\ lastRet.err = Nil
               /\ lastRet.val = [System |-> lastRet.in.kernel, User |-> lastRet.in.user,
                                 Idle |-> lastRet.in.idle]
    /\ lastRet.op = "Memory" =>
          IF lastRet.in.err # Nil
          THEN lastRet.err = lastRet.in.err /\ lastRet.val = "nil"
          ELSE /\ lastRet.err = Nil
               /\ lastRet.val.Total = lastRet.in.TotalPhys
               /\ lastRet.val.Free = lastRet.in.AvailPhys
               /\ lastRet.val.Available = lastRet.in.AvailPhys
               /\ lastRet.val.VirtualTotal = lastRet.in.TotalPageFile
               /\ lastRet.val.VirtualFree = lastRet.in.AvailPageFile

\* CPUTime() answered a failed OS query with its error and empty times, on a handle
\* whose construction had collected errors
C11_Witness ==
    /\ pc = "ready"
    /\ retErr # Nil
    /\ lastRet.op = "CPUTime"
    /\ lastRet.err = ERROR_ACCESS_DENIED
    /\ lastRet.val = ZeroCPUTimes

\* the statements of newHost in program order, then the handle in use
Order == <<"architecture", "bootTime", "hostname", "fqdn", "network", "kernelVersion",
           "os", "time", "uniqueID", "return", "ready">>

Succ(p) == Order[(CHOOSE i \in 1..Len(Order) : Order[i] = p) + 1]

(* C12: newHost runs its reader methods one after another in program      *)
(* order whatever they answer: every step leads to the next statement, a   *)
(* query is answered only at its own step, only once, and its step does    *)
(* not end without its answer.                                             *)
C12_EveryQueryOnceInOrder ==
    [][/\ pc' # pc => (pc # "ready" /\ pc' = Succ(pc))
       /\ \A q \in QueryNames :
             /\ outcome'[q] # outcome[q] =>
                   (pc = q /\ outcome[q].kind = "none" /\ pc' = Succ(q))
             /\ (pc = q /\ pc' # pc) => outcome'[q].kind # "none"]_vars

\* the last query ran and succeeded although the first three had failed
C12_Witness ==
    /\ pc = "return"
    /\ KindOf("architecture") = "fail"
    /\ KindOf("bootTime") = "ni"
    /\ KindOf("hostname") = "fail"
    /\ KindOf("uniqueID") = "ok"
    /\ info.UniqueID = "5b1a3c2e"
    /\ info.Timezone = "CET"

(* C13: when the OS call fails with an error other than ERROR_MORE_DATA,   *)
(* getComputerNameEx returns on that iteration an error that wraps the OS  *)
(* error behind its context, the buffer is not grown, and no OS call       *)
(* follows.                                                                *)
C13_OtherErrorsSurfaceAtOnce ==
    [][/\ (calls' = calls + 1 /\ osErr' # Nil /\ ~(ERROR_MORE_DATA.chain \subseteq osErr'.chain))
           => /\ gcn'.state = "error"
              /\ gcn'.val = <<>>
              /\ osErr'.chain \subseteq gcn'.err.chain
              /\ gcn'.err.msg = <<"could not get windows FQDN: could not get windows.ComputerNamePhysicalDnsFullyQualified: ">> \o osErr'.msg
       /\ (pc = "fqdn" /\ calls > 0 /\ osErr # Nil /\ ~(ERROR_MORE_DATA.chain \subseteq osErr.chain))
           => (calls' # calls + 1 /\ (pc' = "fqdn" => bufLen' = bufLen))]_vars

\* on the retry with a grown buffer the OS answered "access denied" and the
\* function returned that error, wrapped
C13_Witness ==
    /\ pc = "fqdn"
    /\ calls = 2
    /\ bufLen > InitialSize
    /\ osErr = ERROR_ACCESS_DENIED
    /\ gcn.state = "error"
    /\ "ERROR_ACCESS_DENIED" \in gcn.err.chain

\* the two fields reader.time fills
ZoneOf(i) == [name |-> i.Timezone, offset |-> i.TimezoneOffsetSec]

(* C14: the HostInfo starts all zero, and after every step that changes    *)
(* it, the recorded answers or the position of the program, each field is  *)
(* at its zero value or holds the whole result of its own successful query;*)
(* a field changes only at the step of its own query, starting from the    *)
(* zero value; IPs and MACs are both set or both zero, and Timezone and    *)
(* TimezoneOffsetSec are both zero or both taken from one reading of the   *)
(* clock, at the time step only.                                           *)
C14_FieldAtomicity ==
    [][(info' # info \/ outcome' # outcome \/ pc' # pc) =>
       /\ \A q \in QueryNames :
             /\ \/ FieldOf(q, info') = FieldOf(q, ZeroInfo)
                \/ (KindOf(q)' = "ok" /\ FieldOf(q, info') = Fact(q)')
             /\ FieldOf(q, info') # FieldOf(q, info) =>
                   (pc = q /\ FieldOf(q, info) = FieldOf(q, ZeroInfo))
       /\ (info'.IPs = <<>>) <=> (info'.MACs = <<>>)
       /\ ZoneOf(info') = ZoneOf(ZeroInfo) \/ ZoneOf(info') \in Zones
       /\ ZoneOf(info') # ZoneOf(info) =>
             (pc = "time" /\ ZoneOf(info) = ZoneOf(ZeroInfo))]_vars

\* in the middle of construction: network stored IPs and MACs, the FQDN query
\* had failed, the clock has not been read yet
C14_Witness ==
    /\ pc = "os"
    /\ KindOf("fqdn") = "fail"
    /\ info.FQDN = <<>>
    /\ info.IPs = <<"10.0.0.7">>
    /\ info.MACs = <<"00:15:5d:00:00:01">>
    /\ info.Timezone = ""

(* C15: whenever the OS call reports success, whatever size it reports     *)
(* (also one larger than the buffer it was given), getComputerNameEx       *)
(* returns a value, and the value is a leading part of the buffer of at    *)
(* most the reported size.                                                 *)
C15_TruncatedOnSuccess ==
    (pc = "fqdn" /\ calls > 0 /\ osErr = Nil) =>
       /\ gcn.state = "value"
       /\ Len(gcn.val) <= size
       /\ Len(gcn.val) <= bufLen
       /\ gcn.val = SubSeq(Written(osName, bufLen), 1, Len(gcn.val))

(* C16: the FQDN stored in the HostInfo never ends with a dot, whatever    *)
(* name the OS returns; when the FQDN query fails, the field is empty and  *)
(* the error list holds the failure of the query under the prefix of       *)
(* reader.fqdn.                                                            *)
C16_NoTrailingDot ==
    /\ Len(info.FQDN) > 0 => info.FQDN[Len(info.FQDN)] # 46
    /\ KindOf("fqdn") = "fail" =>
          /\ info.FQDN = <<>>
          /\ \E k \in 1..Len(errs) : errs[k] = Entry("fqdn")

(* C17: every OS call of getComputerNameEx is made with a non-empty buffer *)
(* whose length is the size handed to the OS and at least 64, and the      *)
(* buffer of a retry is longer than the buffer of the call before.         *)
C17_LoopInvariant ==
    [][calls' = calls + 1 =>
         /\ bufLen' > 0
         /\ bufLen' = size
         /\ bufLen' >= InitialSize
         /\ calls > 0 => bufLen' > bufLen]_vars

\* the third OS call was made, with a buffer two units longer than the first
C17_Witness ==
    /\ pc = "fqdn"
    /\ calls = 3
    /\ bufLen = InitialSize + 2

====
